---- MODULE Spec2Model ----
(***************************************************************************)
(* Model of shelly.Shelly1 (src/shelly/shelly.py): the relay oscillation   *)
(* controller.  One controller object, one relay on the actuator, a main   *)
(* caller thread, the daemon threads the entry points start, and a second  *)
(* caller that may call stop_oscillation() at any moment.                  *)
(*                                                                         *)
(* Every access to shared state (self._stop_oscillation,                   *)
(* self._oscillations, the relay behind the HTTP API) is one step, so the  *)
(* threads interleave between any two such accesses, as CPython threads    *)
(* do.  A thread in time.sleep is a thread that takes no step for a while: *)
(* a sleep bounds the delay before the thread's next step from below only, *)
(* and no step has a deadline, so every order of the threads' steps is a   *)
(* possible timing.  Sleeps are recorded in the thread's log.  Durations   *)
(* are in hundredths of a second; a watcher keeps in epoch[t] the time     *)
(* passed since it took current_epoch.  The counter self._oscillations is  *)
(* stored doubled (oscillations = 2 * self._oscillations) so that the +0.5 *)
(* of oscillate_cycles is an integer.                                      *)
(***************************************************************************)
EXTENDS Integers, Sequences, FiniteSets, TLC

\* ---------------------------------------------------------------- bounds
MaxThreads == 1     \* toggle-loop threads that may exist at once
MaxCalls   == 2     \* calls made on the controller, stop_oscillation included
MaxOsc     == 2     \* cap on self._oscillations in the unbounded loop
MaxCycles  == 1     \* largest `cycles` argument tried

\* ------------------------------------------------------ program constants
MinPeriod == 5      \* 0.05 s, in hundredths
PollSleep == 10     \* 0.1 s, in hundredths
Second    == 100    \* one second, in hundredths

\* The threads: the main caller, the daemon threads that run a toggle loop,
\* and the thread of a timeout watcher.  A watcher ends as soon as it runs
\* (see ThreadRun), so one at a time is followed: a new one is started once
\* the last has run.
Main    == 0
Workers == 1..MaxThreads
Watcher == MaxThreads + 1
Threads == {Main, Watcher} \cup Workers

\* ------------------------------------------------------- Python values
\* A Python value is a record of its type and its payload.
PyInt(n)   == [ty |-> "int",   n |-> n, b |-> FALSE]
PyFloat(n) == [ty |-> "float", n |-> n, b |-> FALSE]   \* n in hundredths
PyBool(b)  == [ty |-> "bool",  n |-> IF b THEN 1 ELSE 0, b |-> b]
PyStr      == [ty |-> "str",   n |-> -1, b |-> FALSE]

\* A number's value in hundredths (ints and bools are whole units).
Hundredths(x) == IF x.ty = "float" THEN x.n ELSE x.n * Second

\* Python's ==: a bool equals the number of the same value, a str never
\* equals a bool or a number.
PyEq(x, y) ==
    IF x.ty = "str" \/ y.ty = "str" THEN x.ty = y.ty
    ELSE Hundredths(x) = Hundredths(y)

\* RelayState.value of a relay reading
RelayValue(r) == PyBool(r)

\* ------------------------------------------------------------ arguments
\* Values tried for each parameter; the first set of each pair passes the
\* entry points' asserts, the second does not.
Bools       == {PyBool(TRUE), PyBool(FALSE)}
NonBools    == {PyInt(1), PyStr}
BadPeriods  == {PyFloat(MinPeriod - 1), PyStr}
BadIds      == {PyStr}
GoodCounts  == {PyInt(n) : n \in 1..MaxCycles}
BadCounts   == {PyInt(0), PyFloat(Second)}
GoodTimeouts == {PyInt(1)}

NoArgs == [relay_id |-> PyInt(0), period |-> PyFloat(MinPeriod),
           timeout |-> PyInt(0), cycles |-> PyInt(0), block |-> PyBool(TRUE),
           start_state |-> PyBool(TRUE), final_state |-> PyBool(FALSE)]

\* ---------------------------------------------------------------- state
VARIABLES
    relay,         \* the relay's state on the actuator (TRUE = on)
    stop_flag,     \* self._stop_oscillation
    oscillations,  \* 2 * self._oscillations
    pc,            \* each thread's position in the code
    fn,            \* the function each thread runs
    arg,           \* its arguments
    tmp,           \* the relay state a thread has last read
    cnt,           \* the counter value a thread has last read
    epoch,         \* time passed since a watcher took current_epoch
    handle,        \* the watcher thread oscillate_timeout has started
    ret,           \* outcome of the main caller's last call
    exc,           \* the exception a thread died of, if any
    log,           \* what a thread did in its call, while undisturbed
    toggled,       \* the thread has toggled the relay in its current call
    intf,          \* another thread wrote shared state during the call
    stopped,       \* stop_oscillation() has been called during the call
    calls,         \* calls made on the controller so far
    given          \* the argument values the caller uses in its calls

vars == <<relay, stop_flag, oscillations, pc, fn, arg, tmp, cnt, epoch,
          handle, ret, exc, log, toggled, intf, stopped, calls, given>>

Active(t) == pc[t] \notin {"idle", "unused", "done"}
Free(t)   == pc[t] \in {"unused", "done"} /\ handle # t
FreeWorkers == {w \in Workers : Free(w)}
\* the slot a new thread takes
NewThread == CHOOSE w \in FreeWorkers : \A v \in FreeWorkers : w <= v

\* Thread t is the one a caller holds for t.join().
Joined(t) == t # Main /\ handle = t

\* The function thread t runs has returned or raised: the main caller is
\* ready for its next call, a daemon thread is over.
Ended(t) ==
    [pc EXCEPT ![t] = IF t = Main THEN "idle"
                      ELSE IF Joined(t) THEN "done" ELSE "unused"]

\* Events of a thread's log.
RdEv(r)  == IF r THEN "rd_on" ELSE "rd_off"
CmdEv(r) == IF r THEN "ON" ELSE "OFF"
Commands(l) == SelectSeq(l, LAMBDA e : e \in {"ON", "OFF"})
Reads(l)    == SelectSeq(l, LAMBDA e : e \in {"rd_on", "rd_off"})

\* A write by thread t of the relay, the flag or the counter is recorded
\* with every other running call.
Disturb(t) == [u \in Threads |-> (u # t /\ Active(u)) \/ intf[u]]

\* Thread t does es, which writes shared state if w holds.  The log of a
\* thread is kept as long as no other thread has written shared state during
\* its call, and is empty from then on.
Logged(t, es, w) ==
    [u \in Threads |->
        IF u = t THEN (IF intf[u] THEN <<>> ELSE log[u] \o es)
        ELSE IF w /\ Active(u) THEN <<>> ELSE log[u]]

\* A stop_oscillation() call is recorded with every running call.
Stopped == [u \in Threads |-> Active(u) \/ stopped[u]]

Init ==
    /\ relay \in BOOLEAN
    /\ stop_flag = TRUE
    /\ oscillations = 0
    /\ pc = [t \in Threads |-> IF t = Main THEN "idle" ELSE "unused"]
    /\ fn = [t \in Threads |-> "none"]
    /\ arg = [t \in Threads |-> NoArgs]
    /\ tmp = [t \in Threads |-> FALSE]
    /\ cnt = [t \in Threads |-> 0]
    /\ epoch = [t \in Threads |-> 0]
    /\ handle = Main
    /\ ret = "none"
    /\ exc = [t \in Threads |-> "none"]
    /\ log = [t \in Threads |-> <<>>]
    /\ toggled = [t \in Threads |-> FALSE]
    /\ intf = [t \in Threads |-> FALSE]
    /\ stopped = [t \in Threads |-> FALSE]
    /\ calls = 0
    /\ given \in [relay_id : {PyInt(0)}, period : {PyFloat(MinPeriod)},
                  timeout : GoodTimeouts, cycles : GoodCounts,
                  block : {PyBool(TRUE)}, start_state : Bools,
                  final_state : Bools]

\* ---------------------------------------------------------------- toggle
\* toggle as it would be if it commanded the state it has read
ToggleTargetSame(state) == state

\* toggle(relay_id): the state commanded after reading `state`:
\* power(relay_id, False) if the relay reads ON, else power(relay_id, True)
ToggleTarget(state) == IF state THEN FALSE ELSE TRUE

\* -------------------------------------------- oscillate, blocking branch

\* self._stop_oscillation = False
OReset(t) ==
    /\ pc[t] = "o_reset"
    /\ stop_flag' = FALSE
    /\ pc' = [pc EXCEPT ![t] = "o_zero"]
    /\ log' = Logged(t, <<"flag_F">>, TRUE)
    /\ intf' = Disturb(t)
    /\ UNCHANGED <<relay, oscillations, fn, arg, tmp, cnt, epoch, handle, ret,
                   exc, toggled, stopped, calls, given>>

\* self._oscillations = 0
OZero(t) ==
    /\ pc[t] = "o_zero"
    /\ oscillations' = 0
    /\ pc' = [pc EXCEPT ![t] = "o_test"]
    /\ log' = Logged(t, <<"count">>, TRUE)
    /\ intf' = Disturb(t)
    /\ UNCHANGED <<relay, stop_flag, fn, arg, tmp, cnt, epoch, handle, ret,
                   exc, toggled, stopped, calls, given>>

\* while not self._stop_oscillation: the loop goes on, or the
\* function returns (None)
OTest(t) ==
    /\ pc[t] = "o_test"
    /\ stop_flag \/ oscillations < 2 * MaxOsc
    /\ pc' = IF stop_flag THEN Ended(t)
       ELSE [pc EXCEPT ![t] = "o_get"]
    /\ fn' = IF stop_flag THEN [fn EXCEPT ![t] = "none"]
       ELSE fn
    /\ arg' = IF stop_flag THEN [arg EXCEPT ![t] = NoArgs]
       ELSE arg
    /\ tmp' = IF stop_flag THEN [tmp EXCEPT ![t] = FALSE]
       ELSE tmp
    /\ cnt' = IF stop_flag THEN [cnt EXCEPT ![t] = 0]
       ELSE cnt
    /\ epoch' = IF stop_flag THEN [epoch EXCEPT ![t] = 0]
       ELSE epoch
    /\ ret' = IF stop_flag THEN IF t = Main THEN "None" ELSE ret
       ELSE ret
    /\ log' = IF stop_flag THEN IF Joined(t) THEN log ELSE [log EXCEPT ![t] = <<>>]
       ELSE log
    /\ toggled' = IF stop_flag THEN [toggled EXCEPT ![t] = FALSE]
       ELSE toggled
    /\ intf' = IF stop_flag THEN [intf EXCEPT ![t] = FALSE]
       ELSE intf
    /\ stopped' = IF stop_flag THEN [stopped EXCEPT ![t] = FALSE]
       ELSE stopped
    /\ UNCHANGED <<relay, stop_flag, oscillations, handle, exc, calls, given>>

\* self.toggle(relay_id): the read of the relay's state
OToggleGet(t) ==
    /\ pc[t] = "o_get"
    /\ pc' = [pc EXCEPT ![t] = "o_pow"]
    /\ tmp' = [tmp EXCEPT ![t] = relay]
    /\ log' = Logged(t, <<RdEv(relay)>>, FALSE)
    /\ UNCHANGED <<relay, stop_flag, oscillations, fn, arg, cnt, epoch, handle,
                   ret, exc, toggled, intf, stopped, calls, given>>

\* ... and the command to the opposite state
OTogglePow(t) ==
    /\ pc[t] = "o_pow"
    /\ relay' = ToggleTarget(tmp[t])
    /\ pc' = [pc EXCEPT ![t] = "o_rd"]
    /\ tmp' = [tmp EXCEPT ![t] = FALSE]
    /\ log' = Logged(t, <<CmdEv(ToggleTarget(tmp[t]))>>, TRUE)
    /\ toggled' = [toggled EXCEPT ![t] = TRUE]
    /\ intf' = Disturb(t)
    /\ UNCHANGED <<stop_flag, oscillations, fn, arg, cnt, epoch, handle, ret,
                   exc, stopped, calls, given>>

\* self._oscillations = self._oscillations + 1: the read
ORead(t) ==
    /\ pc[t] = "o_rd"
    /\ pc' = [pc EXCEPT ![t] = "o_wr"]
    /\ cnt' = [cnt EXCEPT ![t] = oscillations]
    /\ UNCHANGED <<relay, stop_flag, oscillations, fn, arg, tmp, epoch, handle,
                   ret, exc, log, toggled, intf, stopped, calls, given>>

\* ... the write; time.sleep(period) follows
OWrite(t) ==
    /\ pc[t] = "o_wr"
    /\ oscillations' = cnt[t] + 2
    /\ pc' = [pc EXCEPT ![t] = "o_test"]
    /\ cnt' = [cnt EXCEPT ![t] = 0]
    /\ log' = Logged(t, <<"count", "sleep">>, TRUE)
    /\ intf' = Disturb(t)
    /\ UNCHANGED <<relay, stop_flag, fn, arg, tmp, epoch, handle, ret, exc,
                   toggled, stopped, calls, given>>

Oscillate(t) ==
    \/ OReset(t) \/ OZero(t) \/ OTest(t) \/ OToggleGet(t) \/ OTogglePow(t)
    \/ ORead(t) \/ OWrite(t)

\* ------------------------------------- oscillate_cycles, blocking branch

\* self._stop_oscillation = False
CReset(t) ==
    /\ pc[t] = "c_reset"
    /\ stop_flag' = FALSE
    /\ pc' = [pc EXCEPT ![t] = "c_sget"]
    /\ log' = Logged(t, <<"flag_F">>, TRUE)
    /\ intf' = Disturb(t)
    /\ UNCHANGED <<relay, oscillations, fn, arg, tmp, cnt, epoch, handle, ret,
                   exc, toggled, stopped, calls, given>>

\* if self.get_relay_state(relay_id).value != start_state: the read
CStartGet(t) ==
    /\ pc[t] = "c_sget"
    /\ pc' = [pc EXCEPT ![t] = "c_spow"]
    /\ tmp' = [tmp EXCEPT ![t] = relay]
    /\ log' = Logged(t, <<RdEv(relay)>>, FALSE)
    /\ UNCHANGED <<relay, stop_flag, oscillations, fn, arg, cnt, epoch, handle,
                   ret, exc, toggled, intf, stopped, calls, given>>

\* the start-state step as it would be if it commanded start_state whatever
\* the relay reads
CStartPowAlways(t) ==
    /\ pc[t] = "c_spow"
    /\ relay' = arg[t].start_state.b
    /\ pc' = [pc EXCEPT ![t] = "c_zero"]
    /\ tmp' = [tmp EXCEPT ![t] = FALSE]
    /\ log' = Logged(t, <<CmdEv(arg[t].start_state.b), "sleep">>, TRUE)
    /\ intf' = Disturb(t)
    /\ UNCHANGED <<stop_flag, oscillations, fn, arg, cnt, epoch, handle, ret,
                   exc, toggled, stopped, calls, given>>

\* ... the comparison, then self.power(relay_id, start_state) and
\* time.sleep(period)
CStartPow(t) ==
    /\ pc[t] = "c_spow"
    /\ relay' = IF PyEq(RelayValue(tmp[t]), arg[t].start_state)
       THEN relay ELSE arg[t].start_state.b
    /\ pc' = [pc EXCEPT ![t] = "c_zero"]
    /\ tmp' = [tmp EXCEPT ![t] = FALSE]
    /\ log' = IF PyEq(RelayValue(tmp[t]), arg[t].start_state) THEN log
       ELSE Logged(t, <<CmdEv(arg[t].start_state.b), "sleep">>, TRUE)
    /\ intf' = IF PyEq(RelayValue(tmp[t]), arg[t].start_state)
       THEN intf ELSE Disturb(t)
    /\ UNCHANGED <<stop_flag, oscillations, fn, arg, cnt, epoch, handle, ret,
                   exc, toggled, stopped, calls, given>>

\* the counter reset as it would be if it left the counter as it is
CZeroKeeps(t) ==
    /\ pc[t] = "c_zero"
    /\ oscillations' = oscillations
    /\ pc' = [pc EXCEPT ![t] = "c_test"]
    /\ log' = Logged(t, <<"count">>, TRUE)
    /\ intf' = Disturb(t)
    /\ UNCHANGED <<relay, stop_flag, fn, arg, tmp, cnt, epoch, handle, ret,
                   exc, toggled, stopped, calls, given>>

\* self._oscillations = 0
CZero(t) ==
    /\ pc[t] = "c_zero"
    /\ oscillations' = 0
    /\ pc' = [pc EXCEPT ![t] = "c_test"]
    /\ log' = Logged(t, <<"count">>, TRUE)
    /\ intf' = Disturb(t)
    /\ UNCHANGED <<relay, stop_flag, fn, arg, tmp, cnt, epoch, handle, ret,
                   exc, toggled, stopped, calls, given>>

\* while not self._stop_oscillation and ...: the flag is read first
CTestStop(t) ==
    /\ pc[t] = "c_test"
    /\ pc' = [pc EXCEPT ![t] = IF stop_flag THEN "c_fget" ELSE "c_test2"]
    /\ UNCHANGED <<relay, stop_flag, oscillations, fn, arg, tmp, cnt, epoch,
                   handle, ret, exc, log, toggled, intf, stopped, calls, given>>

\* the test as it would be if the loop went on until the counter exceeds cycles
CTestCountOver(t) ==
    /\ pc[t] = "c_test2"
    /\ pc' = [pc EXCEPT ![t] = IF oscillations <= 2 * arg[t].cycles.n
                           THEN "c_get" ELSE "c_fget"]
    /\ UNCHANGED <<relay, stop_flag, oscillations, fn, arg, tmp, cnt, epoch,
                   handle, ret, exc, log, toggled, intf, stopped, calls, given>>

\* ... and self._oscillations < cycles
CTestCount(t) ==
    /\ pc[t] = "c_test2"
    /\ pc' = [pc EXCEPT ![t] = IF oscillations < 2 * arg[t].cycles.n
                           THEN "c_get" ELSE "c_fget"]
    /\ UNCHANGED <<relay, stop_flag, oscillations, fn, arg, tmp, cnt, epoch,
                   handle, ret, exc, log, toggled, intf, stopped, calls, given>>

\* self.toggle(relay_id): the read of the relay's state
CToggleGet(t) ==
    /\ pc[t] = "c_get"
    /\ pc' = [pc EXCEPT ![t] = "c_pow"]
    /\ tmp' = [tmp EXCEPT ![t] = relay]
    /\ log' = Logged(t, <<RdEv(relay)>>, FALSE)
    /\ UNCHANGED <<relay, stop_flag, oscillations, fn, arg, cnt, epoch, handle,
                   ret, exc, toggled, intf, stopped, calls, given>>

\* ... and the command to the opposite state; time.sleep(period) follows
CTogglePow(t) ==
    /\ pc[t] = "c_pow"
    /\ relay' = ToggleTarget(tmp[t])
    /\ pc' = [pc EXCEPT ![t] = "c_rd"]
    /\ tmp' = [tmp EXCEPT ![t] = FALSE]
    /\ log' = Logged(t, <<CmdEv(ToggleTarget(tmp[t])), "sleep">>, TRUE)
    /\ toggled' = [toggled EXCEPT ![t] = TRUE]
    /\ intf' = Disturb(t)
    /\ UNCHANGED <<stop_flag, oscillations, fn, arg, cnt, epoch, handle, ret,
                   exc, stopped, calls, given>>

\* self._oscillations = self._oscillations + 0.5: the read
CRead(t) ==
    /\ pc[t] = "c_rd"
    /\ pc' = [pc EXCEPT ![t] = "c_wr"]
    /\ cnt' = [cnt EXCEPT ![t] = oscillations]
    /\ UNCHANGED <<relay, stop_flag, oscillations, fn, arg, tmp, epoch, handle,
                   ret, exc, log, toggled, intf, stopped, calls, given>>

\* the increment as it would be if a toggle counted as a whole cycle
CWriteWhole(t) ==
    /\ pc[t] = "c_wr"
    /\ oscillations' = cnt[t] + 2
    /\ pc' = [pc EXCEPT ![t] = "c_test"]
    /\ cnt' = [cnt EXCEPT ![t] = 0]
    /\ log' = Logged(t, <<"count">>, TRUE)
    /\ intf' = Disturb(t)
    /\ UNCHANGED <<relay, stop_flag, fn, arg, tmp, epoch, handle, ret, exc,
                   toggled, stopped, calls, given>>

\* ... the write
CWrite(t) ==
    /\ pc[t] = "c_wr"
    /\ oscillations' = cnt[t] + 1
    /\ pc' = [pc EXCEPT ![t] = "c_test"]
    /\ cnt' = [cnt EXCEPT ![t] = 0]
    /\ log' = Logged(t, <<"count">>, TRUE)
    /\ intf' = Disturb(t)
    /\ UNCHANGED <<relay, stop_flag, fn, arg, tmp, epoch, handle, ret, exc,
                   toggled, stopped, calls, given>>

\* if self.get_relay_state(relay_id).value != final_state: the read
CFinalGet(t) ==
    /\ pc[t] = "c_fget"
    /\ pc' = [pc EXCEPT ![t] = "c_fpow"]
    /\ tmp' = [tmp EXCEPT ![t] = relay]
    /\ log' = Logged(t, <<RdEv(relay)>>, FALSE)
    /\ UNCHANGED <<relay, stop_flag, oscillations, fn, arg, cnt, epoch, handle,
                   ret, exc, toggled, intf, stopped, calls, given>>

\* the exit step as it would be without the final-state command
CFinalPowSkips(t) ==
    /\ pc[t] = "c_fpow"
    /\ pc' = [pc EXCEPT ![t] = "c_ret"]
    /\ tmp' = [tmp EXCEPT ![t] = FALSE]
    /\ UNCHANGED <<relay, stop_flag, oscillations, fn, arg, cnt, epoch, handle,
                   ret, exc, log, toggled, intf, stopped, calls, given>>

\* ... the comparison and self.power(relay_id, final_state); the
\* branch has then run to its end
CFinalPow(t) ==
    /\ pc[t] = "c_fpow"
    /\ relay' = IF PyEq(RelayValue(tmp[t]), arg[t].final_state)
       THEN relay ELSE arg[t].final_state.b
    /\ pc' = [pc EXCEPT ![t] = "c_ret"]
    /\ tmp' = [tmp EXCEPT ![t] = FALSE]
    /\ log' = IF PyEq(RelayValue(tmp[t]), arg[t].final_state)
       THEN log ELSE Logged(t, <<CmdEv(arg[t].final_state.b)>>, TRUE)
    /\ intf' = IF PyEq(RelayValue(tmp[t]), arg[t].final_state)
       THEN intf ELSE Disturb(t)
    /\ UNCHANGED <<stop_flag, oscillations, fn, arg, cnt, epoch, handle, ret,
                   exc, toggled, stopped, calls, given>>

\* the blocking branch returns (None)
CReturn(t) ==
    /\ pc[t] = "c_ret"
    /\ pc' = Ended(t)
    /\ fn' = [fn EXCEPT ![t] = "none"]
    /\ arg' = [arg EXCEPT ![t] = NoArgs]
    /\ tmp' = [tmp EXCEPT ![t] = FALSE]
    /\ cnt' = [cnt EXCEPT ![t] = 0]
    /\ epoch' = [epoch EXCEPT ![t] = 0]
    /\ ret' = IF t = Main THEN "None" ELSE ret
    /\ log' = IF Joined(t) THEN log ELSE [log EXCEPT ![t] = <<>>]
    /\ toggled' = [toggled EXCEPT ![t] = FALSE]
    /\ intf' = [intf EXCEPT ![t] = FALSE]
    /\ stopped' = [stopped EXCEPT ![t] = FALSE]
    /\ UNCHANGED <<relay, stop_flag, oscillations, handle, exc, calls, given>>

OscillateCycles(t) ==
    \/ CReset(t) \/ CStartGet(t) \/ CStartPow(t) \/ CZero(t) \/ CTestStop(t)
    \/ CTestCount(t) \/ CToggleGet(t) \/ CTogglePow(t) \/ CRead(t)
    \/ CWrite(t) \/ CFinalGet(t) \/ CFinalPow(t) \/ CReturn(t)

\* ------------------------------------------------------------- threads
\* Signatures of the thread targets: parameter names and the number of
\* trailing parameters that have defaults.
OscillateParams == <<"relay_id", "period", "block">>
CyclesParams    == <<"relay_id", "period", "cycles", "block", "start_state",
                     "final_state">>
WatcherParams   == <<"period", "timeout", "final_state">>

\* threading.Thread(target=..., args=..., kwargs=...) as each entry point
\* writes it: the number of positional arguments and the keyword names.
OscillateThread == [npos |-> 2, kw |-> {}]
CyclesThread    == [npos |-> 3, kw |-> {"start_state", "final_state"}]
WatcherThread   == [npos |-> 2, kw |-> {"start_state", "final_state"}]

\* Python binds a call's arguments to the callee's parameters: npos
\* positional arguments, the keyword arguments kw, ndef trailing parameters
\* with defaults.  The call raises TypeError unless every keyword names a
\* parameter not already bound and every parameter without default is bound.
BindOK(params, ndef, npos, kw) ==
    /\ npos <= Len(params)
    /\ kw \subseteq {params[i] : i \in (npos + 1)..Len(params)}
    /\ \A i \in (npos + 1)..(Len(params) - ndef) : params[i] \in kw

Bound(f) ==
    CASE f = "oscillate" ->
           BindOK(OscillateParams, 1, OscillateThread.npos, OscillateThread.kw)
      [] f = "oscillate_cycles" ->
           BindOK(CyclesParams, 3, CyclesThread.npos, CyclesThread.kw)
      [] f = "watcher" ->
           BindOK(WatcherParams, 0, WatcherThread.npos, WatcherThread.kw)

\* where the body of each thread target begins
Entry(f) ==
    CASE f = "oscillate" -> "o_reset"
      [] f = "oscillate_cycles" -> "c_reset"
      [] f = "watcher" -> "w_reset"

\* the thread's first step as it would be if a call that does not bind
\* reset the counter
ThreadRunZeroes(t) ==
    /\ pc[t] = "start"
    /\ oscillations' = IF Bound(fn[t]) THEN oscillations
       ELSE 0
    /\ pc' = IF Bound(fn[t]) THEN [pc EXCEPT ![t] = Entry(fn[t])]
       ELSE Ended(t)
    /\ fn' = IF Bound(fn[t]) THEN fn
       ELSE [fn EXCEPT ![t] = "none"]
    /\ arg' = IF Bound(fn[t]) THEN arg
       ELSE [arg EXCEPT ![t] = NoArgs]
    /\ tmp' = IF Bound(fn[t]) THEN tmp
       ELSE [tmp EXCEPT ![t] = FALSE]
    /\ cnt' = IF Bound(fn[t]) THEN cnt
       ELSE [cnt EXCEPT ![t] = 0]
    /\ epoch' = IF Bound(fn[t]) THEN epoch
       ELSE [epoch EXCEPT ![t] = 0]
    /\ ret' = IF Bound(fn[t]) THEN ret
       ELSE IF t = Main THEN "None" ELSE ret
    /\ exc' = IF Bound(fn[t]) THEN exc
       ELSE [exc EXCEPT ![t] = "TypeError"]
    /\ log' = IF Bound(fn[t]) THEN log
       ELSE IF Joined(t) THEN log ELSE [log EXCEPT ![t] = <<>>]
    /\ toggled' = IF Bound(fn[t]) THEN toggled
       ELSE [toggled EXCEPT ![t] = FALSE]
    /\ intf' = IF Bound(fn[t]) THEN intf
       ELSE [intf EXCEPT ![t] = FALSE]
    /\ stopped' = IF Bound(fn[t]) THEN stopped
       ELSE [stopped EXCEPT ![t] = FALSE]
    /\ UNCHANGED <<relay, stop_flag, handle, calls, given>>

\* Thread.run: self._target(*self._args, **self._kwargs).  A call whose
\* arguments do not bind raises TypeError and the thread ends there.
ThreadRun(t) ==
    /\ pc[t] = "start"
    /\ pc' = IF Bound(fn[t]) THEN [pc EXCEPT ![t] = Entry(fn[t])]
       ELSE Ended(t)
    /\ fn' = IF Bound(fn[t]) THEN fn
       ELSE [fn EXCEPT ![t] = "none"]
    /\ arg' = IF Bound(fn[t]) THEN arg
       ELSE [arg EXCEPT ![t] = NoArgs]
    /\ tmp' = IF Bound(fn[t]) THEN tmp
       ELSE [tmp EXCEPT ![t] = FALSE]
    /\ cnt' = IF Bound(fn[t]) THEN cnt
       ELSE [cnt EXCEPT ![t] = 0]
    /\ epoch' = IF Bound(fn[t]) THEN epoch
       ELSE [epoch EXCEPT ![t] = 0]
    /\ ret' = IF Bound(fn[t]) THEN ret
       ELSE IF t = Main THEN "None" ELSE ret
    /\ exc' = IF Bound(fn[t]) THEN exc
       ELSE [exc EXCEPT ![t] = "TypeError"]
    /\ log' = IF Bound(fn[t]) THEN log
       ELSE IF Joined(t) THEN log ELSE [log EXCEPT ![t] = <<>>]
    /\ toggled' = IF Bound(fn[t]) THEN toggled
       ELSE [toggled EXCEPT ![t] = FALSE]
    /\ intf' = IF Bound(fn[t]) THEN intf
       ELSE [intf EXCEPT ![t] = FALSE]
    /\ stopped' = IF Bound(fn[t]) THEN stopped
       ELSE [stopped EXCEPT ![t] = FALSE]
    /\ UNCHANGED <<relay, stop_flag, oscillations, handle, calls, given>>

\* ---------------------- oscillate_timeout: _stop_oscillation_in, the watcher

\* self._stop_oscillation = False
WReset(t) ==
    /\ pc[t] = "w_reset"
    /\ stop_flag' = FALSE
    /\ pc' = [pc EXCEPT ![t] = "w_epoch"]
    /\ log' = Logged(t, <<"flag_F">>, TRUE)
    /\ intf' = Disturb(t)
    /\ UNCHANGED <<relay, oscillations, fn, arg, tmp, cnt, epoch, handle, ret,
                   exc, toggled, stopped, calls, given>>

\* current_epoch = datetime.now().timestamp()
WEpoch(t) ==
    /\ pc[t] = "w_epoch"
    /\ pc' = [pc EXCEPT ![t] = "w_test"]
    /\ epoch' = [epoch EXCEPT ![t] = 0]
    /\ UNCHANGED <<relay, stop_flag, oscillations, fn, arg, tmp, cnt, handle,
                   ret, exc, log, toggled, intf, stopped, calls, given>>

\* while datetime.now().timestamp() < (current_epoch + timeout):
\*     time.sleep(0.1)
\* (the time since current_epoch grows by the length of each sleep)
WTest(t) ==
    /\ pc[t] = "w_test"
    /\ pc' = IF epoch[t] < Hundredths(arg[t].timeout)
       THEN pc ELSE [pc EXCEPT ![t] = "w_set"]
    /\ epoch' = IF epoch[t] < Hundredths(arg[t].timeout)
       THEN [epoch EXCEPT ![t] = @ + PollSleep] ELSE epoch
    /\ log' = IF epoch[t] < Hundredths(arg[t].timeout)
       THEN log ELSE Logged(t, <<"timeout">>, FALSE)
    /\ UNCHANGED <<relay, stop_flag, oscillations, fn, arg, tmp, cnt, handle,
                   ret, exc, toggled, intf, stopped, calls, given>>

\* self._stop_oscillation = True; time.sleep(period) follows
WSet(t) ==
    /\ pc[t] = "w_set"
    /\ stop_flag' = TRUE
    /\ pc' = [pc EXCEPT ![t] = "w_get"]
    /\ log' = Logged(t, <<"flag_T", "sleep">>, TRUE)
    /\ intf' = Disturb(t)
    /\ UNCHANGED <<relay, oscillations, fn, arg, tmp, cnt, epoch, handle, ret,
                   exc, toggled, stopped, calls, given>>

\* if self.get_relay_state(relay_id).value != final_state: the read
WFinalGet(t) ==
    /\ pc[t] = "w_get"
    /\ pc' = [pc EXCEPT ![t] = "w_pow"]
    /\ tmp' = [tmp EXCEPT ![t] = relay]
    /\ log' = Logged(t, <<RdEv(relay)>>, FALSE)
    /\ UNCHANGED <<relay, stop_flag, oscillations, fn, arg, cnt, epoch, handle,
                   ret, exc, toggled, intf, stopped, calls, given>>

\* ... the comparison and self.power(relay_id, final_state)
WFinalPow(t) ==
    /\ pc[t] = "w_pow"
    /\ relay' = IF PyEq(RelayValue(tmp[t]), arg[t].final_state)
       THEN relay ELSE arg[t].final_state.b
    /\ pc' = [pc EXCEPT ![t] = "w_ret"]
    /\ tmp' = [tmp EXCEPT ![t] = FALSE]
    /\ log' = IF PyEq(RelayValue(tmp[t]), arg[t].final_state)
       THEN log ELSE Logged(t, <<CmdEv(arg[t].final_state.b)>>, TRUE)
    /\ intf' = IF PyEq(RelayValue(tmp[t]), arg[t].final_state)
       THEN intf ELSE Disturb(t)
    /\ UNCHANGED <<stop_flag, oscillations, fn, arg, cnt, epoch, handle, ret,
                   exc, toggled, stopped, calls, given>>

\* the watcher has run to its end
WReturn(t) ==
    /\ pc[t] = "w_ret"
    /\ pc' = Ended(t)
    /\ fn' = [fn EXCEPT ![t] = "none"]
    /\ arg' = [arg EXCEPT ![t] = NoArgs]
    /\ tmp' = [tmp EXCEPT ![t] = FALSE]
    /\ cnt' = [cnt EXCEPT ![t] = 0]
    /\ epoch' = [epoch EXCEPT ![t] = 0]
    /\ ret' = IF t = Main THEN "None" ELSE ret
    /\ log' = IF Joined(t) THEN log ELSE [log EXCEPT ![t] = <<>>]
    /\ toggled' = [toggled EXCEPT ![t] = FALSE]
    /\ intf' = [intf EXCEPT ![t] = FALSE]
    /\ stopped' = [stopped EXCEPT ![t] = FALSE]
    /\ UNCHANGED <<relay, stop_flag, oscillations, handle, exc, calls, given>>

\* The body of the watcher.  No thread is ever at one of its positions: the
\* only call of _stop_oscillation_in is the one Thread.run makes, and its
\* arguments do not bind (Bound("watcher") is false), so these steps are
\* not among the steps of Next.
StopOscillationIn(t) ==
    \/ WReset(t) \/ WEpoch(t) \/ WTest(t) \/ WSet(t) \/ WFinalGet(t)
    \/ WFinalPow(t) \/ WReturn(t)

\* ------------------------------------------------------- entry points
\* The assert statements that open each entry point.
ValidOscillate(a) ==
    /\ a.relay_id.ty = "int"
    /\ a.period.ty \in {"int", "float"}
    /\ Hundredths(a.period) >= MinPeriod
    /\ a.block.ty = "bool"

ValidTimeout(a) ==
    /\ a.relay_id.ty = "int"
    /\ a.period.ty \in {"int", "float"}
    /\ Hundredths(a.period) >= MinPeriod
    /\ a.timeout.ty = "int"
    /\ a.timeout.n > 0
    /\ a.block.ty = "bool"
    /\ a.final_state.ty = "bool"

ValidCycles(a) ==
    /\ a.relay_id.ty = "int"
    /\ a.period.ty \in {"int", "float"}
    /\ Hundredths(a.period) >= MinPeriod
    /\ a.cycles.ty = "int"
    /\ a.cycles.n > 0
    /\ a.block.ty = "bool"
    /\ a.start_state.ty = "bool"
    /\ a.final_state.ty = "bool"

\* Arguments of the thread a non-blocking call starts: block is left to its
\* default, True.
OscillateArgs(a) ==
    [NoArgs EXCEPT !.relay_id = a.relay_id, !.period = a.period]
\* the arguments of the cycles thread as they would be if the call did not
\* pass start_state and final_state on
CyclesArgsDefaults(a) ==
    [NoArgs EXCEPT !.relay_id = a.relay_id, !.period = a.period,
                   !.cycles = a.cycles]

CyclesArgs(a) ==
    [NoArgs EXCEPT !.relay_id = a.relay_id, !.period = a.period,
                   !.cycles = a.cycles, !.start_state = a.start_state,
                   !.final_state = a.final_state]
WatcherArgs(a) ==
    [NoArgs EXCEPT !.relay_id = a.relay_id, !.period = a.period,
                   !.timeout = a.timeout, !.start_state = a.start_state,
                   !.final_state = a.final_state]

\* Call as it would be if a non-blocking call, after starting its thread,
\* fell through into the blocking branch
CallAlsoRuns(f, a, valid, direct, entry, targs) ==
    /\ pc[Main] = "idle"
    /\ calls < MaxCalls
    /\ (valid /\ ~direct) => FreeWorkers # {}
    /\ pc' = IF ~valid THEN [pc EXCEPT ![Main] = "raised"]
       ELSE IF direct THEN [pc EXCEPT ![Main] = entry]
       ELSE [pc EXCEPT ![NewThread] = "start", ![Main] = entry]
    /\ fn' = IF ~valid \/ direct THEN [fn EXCEPT ![Main] = f]
       ELSE [fn EXCEPT ![NewThread] = f, ![Main] = f]
    /\ arg' = IF ~valid \/ direct THEN [arg EXCEPT ![Main] = a]
       ELSE [arg EXCEPT ![NewThread] = targs, ![Main] = targs]
    /\ ret' = IF ~valid \/ direct THEN "none" ELSE "Thread"
    /\ exc' = IF ~valid \/ direct THEN exc
       ELSE [exc EXCEPT ![NewThread] = "none"]
    /\ calls' = calls + 1
    /\ UNCHANGED <<relay, stop_flag, oscillations, tmp, cnt, epoch, handle,
                   log, toggled, intf, stopped, given>>

\* The main caller calls entry point f with arguments a.  `valid` is the
\* outcome of f's asserts; when they pass and `direct` holds the caller
\* itself goes on at `entry`, otherwise it starts a daemon thread that
\* calls f with arguments targs, and returns the thread.
Call(f, a, valid, direct, entry, targs) ==
    /\ pc[Main] = "idle"
    /\ calls < MaxCalls
    /\ (valid /\ ~direct) => FreeWorkers # {}
    /\ pc' = IF ~valid THEN [pc EXCEPT ![Main] = "raised"]
       ELSE IF direct THEN [pc EXCEPT ![Main] = entry]
       ELSE [pc EXCEPT ![NewThread] = "start"]
    /\ fn' = IF ~valid \/ direct THEN [fn EXCEPT ![Main] = f]
       ELSE [fn EXCEPT ![NewThread] = f]
    /\ arg' = IF ~valid \/ direct THEN [arg EXCEPT ![Main] = a]
       ELSE [arg EXCEPT ![NewThread] = targs]
    /\ ret' = IF ~valid \/ direct THEN "none" ELSE "Thread"
    /\ exc' = IF ~valid \/ direct THEN exc
       ELSE [exc EXCEPT ![NewThread] = "none"]
    /\ calls' = calls + 1
    /\ UNCHANGED <<relay, stop_flag, oscillations, tmp, cnt, epoch, handle,
                   log, toggled, intf, stopped, given>>

\* The argument records tried for a call: the record v of the caller's
\* values, and v with one of the parameters ps given a bad value.
BadValues(p) ==
    CASE p = "relay_id" -> BadIds
      [] p = "period" -> BadPeriods
      [] p \in {"timeout", "cycles"} -> BadCounts
      [] p \in {"block", "start_state", "final_state"} -> NonBools

OneBad(v, ps) ==
    {v} \cup UNION {{[v EXCEPT ![p] = x] : x \in BadValues(p)} : p \in ps}

\* oscillate(relay_id, period, block)
CallOscillate ==
    \E b \in Bools :
      \E a \in OneBad([given EXCEPT !.block = b],
                      {"relay_id", "period", "block"}) :
        Call("oscillate", a, ValidOscillate(a), a.block.b, "o_reset",
             OscillateArgs(a))

\* oscillate_cycles(relay_id, period, cycles, block, start_state, final_state)
CallCycles ==
    \E b \in Bools :
      \E a \in OneBad([given EXCEPT !.block = b],
                      {"relay_id", "period", "cycles", "block",
                       "start_state", "final_state"}) :
        Call("oscillate_cycles", a, ValidCycles(a), a.block.b, "c_reset",
             CyclesArgs(a))

\* oscillate_timeout(relay_id, period, timeout, block, start_state,
\* final_state): after the asserts the caller itself sets the starting state
CallTimeout ==
    \E b \in Bools :
      \E a \in OneBad([given EXCEPT !.block = b],
                      {"relay_id", "period", "timeout", "block",
                       "start_state", "final_state"}) :
        /\ ValidTimeout(a) => (FreeWorkers # {} /\ Free(Watcher))
        /\ Call("oscillate_timeout", a, ValidTimeout(a), TRUE, "t_sget", a)

\* if self.get_relay_state(relay_id).value != start_state: the read
TStartGet ==
    /\ pc[Main] = "t_sget"
    /\ pc' = [pc EXCEPT ![Main] = "t_spow"]
    /\ tmp' = [tmp EXCEPT ![Main] = relay]
    /\ log' = Logged(Main, <<RdEv(relay)>>, FALSE)
    /\ UNCHANGED <<relay, stop_flag, oscillations, fn, arg, cnt, epoch, handle,
                   ret, exc, toggled, intf, stopped, calls, given>>

\* ... the comparison, then self.power(relay_id, start_state), whose own
\* asserts reject a state that is not a bool, and time.sleep(period)
TStartPow ==
    /\ pc[Main] = "t_spow"
    /\ relay' = IF PyEq(RelayValue(tmp[Main]), arg[Main].start_state) \/ arg[Main].start_state.ty # "bool"
       THEN relay ELSE arg[Main].start_state.b
    /\ pc' = IF PyEq(RelayValue(tmp[Main]), arg[Main].start_state)
       THEN [pc EXCEPT ![Main] = "t_osc"]
       ELSE IF arg[Main].start_state.ty # "bool"
       THEN [pc EXCEPT ![Main] = "raised"]
       ELSE [pc EXCEPT ![Main] = "t_osc"]
    /\ tmp' = [tmp EXCEPT ![Main] = FALSE]
    /\ log' = IF PyEq(RelayValue(tmp[Main]), arg[Main].start_state) \/ arg[Main].start_state.ty # "bool"
       THEN log
       ELSE Logged(Main, <<CmdEv(arg[Main].start_state.b), "sleep">>, TRUE)
    /\ intf' = IF PyEq(RelayValue(tmp[Main]), arg[Main].start_state) \/ arg[Main].start_state.ty # "bool"
       THEN intf ELSE Disturb(Main)
    /\ UNCHANGED <<stop_flag, oscillations, fn, arg, cnt, epoch, handle, ret,
                   exc, toggled, stopped, calls, given>>

\* self.oscillate(relay_id, period, block=False): its asserts pass and the
\* toggle loop is started on a daemon thread
TOscillate ==
    /\ pc[Main] = "t_osc"
    /\ FreeWorkers # {}
    /\ ValidOscillate([arg[Main] EXCEPT !.block = PyBool(FALSE)])
    /\ pc' = [pc EXCEPT ![Main] = "t_watch", ![NewThread] = "start"]
    /\ fn' = [fn EXCEPT ![NewThread] = "oscillate"]
    /\ arg' = [arg EXCEPT ![NewThread] = OscillateArgs(arg[Main])]
    /\ exc' = [exc EXCEPT ![NewThread] = "none"]
    /\ log' = Logged(Main, <<"spawn">>, FALSE)
    /\ UNCHANGED <<relay, stop_flag, oscillations, tmp, cnt, epoch, handle,
                   ret, toggled, intf, stopped, calls, given>>

\* t = threading.Thread(target=_stop_oscillation_in, ...); t.start()
TWatcher ==
    /\ pc[Main] = "t_watch"
    /\ Free(Watcher)
    /\ pc' = [pc EXCEPT ![Main] = "t_join", ![Watcher] = "start"]
    /\ fn' = [fn EXCEPT ![Watcher] = "watcher"]
    /\ arg' = [arg EXCEPT ![Watcher] = WatcherArgs(arg[Main])]
    /\ handle' = Watcher
    /\ exc' = [exc EXCEPT ![Watcher] = "none"]
    /\ log' = Logged(Main, <<"spawn">>, FALSE)
    /\ UNCHANGED <<relay, stop_flag, oscillations, tmp, cnt, epoch, ret,
                   toggled, intf, stopped, calls, given>>

\* if block: t.join()
TJoin ==
    /\ pc[Main] = "t_join"
    /\ arg[Main].block.b => pc[handle] = "done"
    /\ pc' = [pc EXCEPT ![Main] = "t_ret"]
    /\ UNCHANGED <<relay, stop_flag, oscillations, fn, arg, tmp, cnt, epoch,
                   handle, ret, exc, log, toggled, intf, stopped, calls, given>>

\* the function ends without a return statement; the Thread object t is
\* dropped with the frame
TReturn ==
    /\ pc[Main] = "t_ret"
    /\ pc' = [pc EXCEPT ![Main] = "idle",
                   ![handle] = IF @ = "done" THEN "unused" ELSE @]
    /\ fn' = [fn EXCEPT ![Main] = "none"]
    /\ arg' = [arg EXCEPT ![Main] = NoArgs]
    /\ tmp' = [tmp EXCEPT ![Main] = FALSE]
    /\ cnt' = [cnt EXCEPT ![Main] = 0]
    /\ epoch' = [epoch EXCEPT ![Main] = 0]
    /\ handle' = Main
    /\ ret' = "None"
    /\ exc' = [exc EXCEPT ![handle] = IF pc[handle] = "done" THEN "none" ELSE @]
    /\ log' = [log EXCEPT ![Main] = <<>>,
                    ![handle] = IF pc[handle] = "done" THEN <<>> ELSE @]
    /\ toggled' = [toggled EXCEPT ![Main] = FALSE]
    /\ intf' = [intf EXCEPT ![Main] = FALSE]
    /\ stopped' = [stopped EXCEPT ![Main] = FALSE]
    /\ UNCHANGED <<relay, stop_flag, oscillations, calls, given>>

OscillateTimeout ==
    \/ TStartGet \/ TStartPow \/ TOscillate \/ TWatcher \/ TJoin \/ TReturn

\* a failed assert propagates to the caller as AssertionError
Raise ==
    /\ pc[Main] = "raised"
    /\ pc' = Ended(Main)
    /\ fn' = [fn EXCEPT ![Main] = "none"]
    /\ arg' = [arg EXCEPT ![Main] = NoArgs]
    /\ tmp' = [tmp EXCEPT ![Main] = FALSE]
    /\ cnt' = [cnt EXCEPT ![Main] = 0]
    /\ epoch' = [epoch EXCEPT ![Main] = 0]
    /\ ret' = "AssertionError"
    /\ log' = IF Joined(Main) THEN log ELSE [log EXCEPT ![Main] = <<>>]
    /\ toggled' = [toggled EXCEPT ![Main] = FALSE]
    /\ intf' = [intf EXCEPT ![Main] = FALSE]
    /\ stopped' = [stopped EXCEPT ![Main] = FALSE]
    /\ UNCHANGED <<relay, stop_flag, oscillations, handle, exc, calls, given>>

\* stop_oscillation() as it would be if it also reset the counter
StopOscillationZeroes ==
    /\ calls < MaxCalls
    /\ stop_flag' = TRUE
    /\ oscillations' = 0
    /\ stopped' = Stopped
    /\ calls' = calls + 1
    /\ UNCHANGED <<relay, pc, fn, arg, tmp, cnt, epoch, handle, ret, exc, log,
                   toggled, intf, given>>

\* stop_oscillation() as it would be if it flipped the flag
StopOscillationFlips ==
    /\ calls < MaxCalls
    /\ stop_flag' = ~stop_flag
    /\ stopped' = Stopped
    /\ calls' = calls + 1
    /\ UNCHANGED <<relay, oscillations, pc, fn, arg, tmp, cnt, epoch, handle,
                   ret, exc, log, toggled, intf, given>>

\* stop_oscillation(), called from a thread other than the ones above
StopOscillation ==
    /\ calls < MaxCalls
    /\ stop_flag' = TRUE
    /\ stopped' = Stopped
    /\ calls' = calls + 1
    /\ UNCHANGED <<relay, oscillations, pc, fn, arg, tmp, cnt, epoch, handle,
                   ret, exc, log, toggled, intf, given>>

Next ==
    \/ CallOscillate
    \/ CallCycles
    \/ CallTimeout
    \/ OscillateTimeout
    \/ Raise
    \/ \E t \in Threads : Oscillate(t)
    \/ \E t \in Threads : OscillateCycles(t)
    \/ \E t \in Workers \cup {Watcher} : ThreadRun(t)
    \/ StopOscillation

Spec == Init /\ [][Next]_vars

\* Every call of an actuator returns and every sleep ends: a thread that is
\* inside oscillate_cycles goes on to its next statement.
FairSpec == Spec /\ \A t \in Threads : WF_vars(OscillateCycles(t))

\* ================================================================ claims
\* the toggle commands of k iterations, the first of which commands `first`
ToggleCmds(first, k) ==
    [i \in 1..k |-> CmdEv(IF i % 2 = 1 THEN first ELSE ~first)]

\* C1: when a blocking oscillate_timeout call with timeout >= period
\* returns, the relay is in final_state
C1_TimeoutFinalState ==
    (/\ pc[Main] = "t_ret"
     /\ arg[Main].block.b
     /\ Hundredths(arg[Main].timeout) >= Hundredths(arg[Main].period))
    => relay = arg[Main].final_state.b

\* C2: when a blocking oscillate_timeout call returns, its watcher has run
\* its body to the end (the timeout loop, the setting of the stop flag, the
\* grace sleep and the final-state check, in that order) and was not ended
\* by an exception before
C2_JoinAwaitsWatcher ==
    (pc[Main] = "t_ret" /\ arg[Main].block.b)
    => (pc[handle] = "done" /\ exc[handle] = "none")

\* C3: an oscillate_cycles call that runs to its end with no stop_oscillation
\* call and no other thread writing the relay or the controller's state has
\* brought the counter to exactly `cycles` and has issued exactly the start
\* command (if the relay was not in start_state), 2 * cycles alternating
\* toggles, and the final command (if the relay was not left in final_state)
C3_CycleExactness ==
    \A t \in Threads :
        (pc[t] = "c_ret" /\ ~intf[t] /\ ~stopped[t]) =>
            LET s == arg[t].start_state.b
                f == arg[t].final_state.b
                n == arg[t].cycles.n
            IN  /\ oscillations = 2 * n
                /\ Commands(log[t]) =
                      (IF Reads(log[t])[1] = RdEv(s) THEN <<>>
                       ELSE <<CmdEv(s)>>)
                      \o ToggleCmds(~s, 2 * n)
                      \o (IF s = f THEN <<>> ELSE <<CmdEv(f)>>)

\* relay off, start_state True, final_state False: start command, 2 * cycles
\* toggles, final command
C3_Witness ==
    /\ pc[Main] = "c_ret"
    /\ ~intf[Main]
    /\ ~stopped[Main]
    /\ arg[Main].start_state.b
    /\ ~arg[Main].final_state.b
    /\ Len(Commands(log[Main])) = 2 * arg[Main].cycles.n + 2

\* C4, as claimed: whenever oscillate_cycles has run to its end the relay is
\* in final_state
C4_Original ==
    \A t \in Threads :
        pc[t] = "c_ret" => relay = arg[t].final_state.b

\* C4, amended: when oscillate_cycles has run to its end, after the counter
\* reached `cycles` or after a stop_oscillation call, and no other thread
\* has written the relay or the controller's state during the call, the
\* relay is in final_state, and the call's last actuator access is a read of
\* final_state (no command then) or a read of the other state followed by
\* the command to final_state
C4_FinalState ==
    \A t \in Threads :
        (pc[t] = "c_ret" /\ ~intf[t]) =>
            LET f == arg[t].final_state.b
                l == log[t]
                k == Len(l)
            IN  /\ relay = f
                /\ \/ l[k] = RdEv(f)
                   \/ l[k] = CmdEv(f) /\ l[k - 1] = RdEv(~f)

\* a loop stopped by the caller after its first toggle, with the relay then
\* commanded to final_state
C4_Witness ==
    \E t \in Threads :
        /\ pc[t] = "c_ret"
        /\ ~intf[t]
        /\ stopped[t]
        /\ toggled[t]
        /\ oscillations < 2 * arg[t].cycles.n
        /\ log[t][Len(log[t])] = CmdEv(arg[t].final_state.b)

\* C5: no thread of a session resets to false a stop flag that is true after
\* a stop_oscillation() call made during the session
C5_StopLatch ==
    [][\A t \in Threads :
         (stopped[t] /\ stop_flag /\ pc'[t] # pc[t]) => stop_flag']_vars

\* C6: a stop_oscillation() call sets the stop flag, and a call made when
\* the flag is already set (a second call in succession) changes nothing of
\* the controller, the relay or the threads
C6_StopIdempotent ==
    [][StopOscillation =>
         /\ stop_flag'
         /\ stop_flag => UNCHANGED <<relay, stop_flag, oscillations, pc, fn,
                                     arg, tmp, cnt, epoch, handle, ret,
                                     exc>>]_vars

\* two stop_oscillation() calls and no other call
C6_Witness ==
    /\ calls = 2
    /\ pc[Main] = "idle"
    /\ ret = "none"
    /\ stop_flag

\* The arguments the claim calls invalid for entry point f.
ClaimedInvalid(f, a) ==
    \/ a.relay_id.ty # "int"
    \/ a.period.ty \notin {"int", "float"}
    \/ Hundredths(a.period) < MinPeriod
    \/ a.block.ty # "bool"
    \/ /\ f = "oscillate_timeout"
       /\ (a.timeout.ty # "int" \/ a.timeout.n <= 0)
    \/ /\ f = "oscillate_cycles"
       /\ (a.cycles.ty # "int" \/ a.cycles.n <= 0)
    \/ /\ f \in {"oscillate_timeout", "oscillate_cycles"}
       /\ (a.start_state.ty # "bool" \/ a.final_state.ty # "bool")

\* C7: a call of an entry point with an invalid argument does nothing but
\* fail: the caller is never past the asserts, and has read or commanded
\* nothing and started no thread
C7_InvalidRejected ==
    (fn[Main] # "none" /\ ClaimedInvalid(fn[Main], arg[Main]))
    => (pc[Main] = "raised" /\ log[Main] = <<>>)

\* The position in a call's log of its first read of the relay.
FirstRead(f) == IF f = "oscillate_cycles" THEN 2 ELSE 1

\* The call of thread t is past its start-state step.
PastStart(t) ==
    /\ fn[t] \in {"oscillate_cycles", "oscillate_timeout"}
    /\ pc[t] \notin {"start", "raised", "c_reset", "c_sget", "c_spow",
                     "t_sget", "t_spow"}

\* C8: in oscillate_timeout and oscillate_cycles, when the first read of the
\* relay returns start_state, neither a command nor a sleep follows it
\* before the toggling is set up; when it returns the other state, the
\* command to start_state and one sleep follow it
C8_StartStateIdempotence ==
    \A t \in Threads :
        (PastStart(t) /\ ~intf[t] /\ arg[t].start_state.ty = "bool") =>
            LET l == log[t]
                i == FirstRead(fn[t])
                s == arg[t].start_state.b
            IN  IF l[i] = RdEv(s)
                THEN Len(l) > i => l[i + 1] \notin {"ON", "OFF", "sleep"}
                ELSE /\ Len(l) >= i + 2
                     /\ l[i + 1] = CmdEv(s)
                     /\ l[i + 2] = "sleep"

\* a cycles call that found the relay in start_state and is about to toggle
C8_Witness ==
    \E t \in Threads :
        /\ pc[t] = "c_get"
        /\ ~intf[t]
        /\ ~toggled[t]
        /\ log[t] = <<"flag_F", RdEv(arg[t].start_state.b), "count">>

\* The call of thread t is between the counter reset of oscillate_cycles
\* and its first toggle.
BeforeFirstToggle(t) ==
    pc[t] \in {"c_test", "c_test2", "c_get"} /\ ~toggled[t]

\* C9, as claimed: the counter is 0 after the start-state settling and
\* before the first toggle
C9_Original ==
    \A t \in Threads : BeforeFirstToggle(t) => oscillations = 0

\* C9, amended: the start-state step of oscillate_cycles leaves the counter
\* as it is, and the counter is 0 after the start-state settling and before
\* the first toggle when no other thread has written the relay or the
\* controller's state during the call
C9_CounterFloor ==
    /\ [](\A t \in Threads :
            (BeforeFirstToggle(t) /\ ~intf[t]) => oscillations = 0)
    /\ [][\A t \in Threads :
            (pc[t] = "c_spow" /\ pc'[t] = "c_zero")
            => oscillations' = oscillations]_vars

\* a call that had to command start_state and is about to toggle
C9_Witness ==
    \E t \in Threads :
        /\ pc[t] = "c_get"
        /\ ~intf[t]
        /\ ~toggled[t]
        /\ Len(Commands(log[t])) = 1
        /\ oscillations = 0

\* C10: in the log of a call during which no other thread wrote the relay,
\* every command follows a read of the opposite state, consecutive commands
\* are opposite, and the relay is in the state last commanded
C10_ToggleAlternation ==
    \A t \in Threads :
        ~intf[t] =>
            LET l == log[t]
                c == Commands(l)
            IN  /\ \A i \in 1..Len(l) :
                      l[i] \in {"ON", "OFF"} =>
                          i > 1 /\ l[i - 1] = RdEv(l[i] = "OFF")
                /\ \A i \in 1..(Len(c) - 1) : c[i] # c[i + 1]
                /\ (Len(c) > 0 /\ Active(t)) => relay = (c[Len(c)] = "ON")

\* an unbounded toggle loop that has toggled twice undisturbed
C10_Witness ==
    \E t \in Threads :
        /\ fn[t] = "oscillate"
        /\ ~intf[t]
        /\ Len(Commands(log[t])) >= 2

\* The thread t is in a toggle loop: between the loop's first test and its
\* exit.
InLoop(t) ==
    pc[t] \in {"o_test", "o_get", "o_pow", "o_rd", "o_wr",
               "c_test", "c_test2", "c_get", "c_pow", "c_rd", "c_wr"}

ActiveLoops == {t \in Threads : InLoop(t)}

\* C11, as claimed: no two toggle loops are active at once on the controller
C11_Original == Cardinality(ActiveLoops) <= 1

\* C11, amended: every call starts at most one toggle loop, so no more loops
\* are active than calls have been made on the controller
C11_OneLoopPerCall == Cardinality(ActiveLoops) <= calls

\* one call made, its loop running
C11_Witness == calls = 1 /\ Cardinality(ActiveLoops) = 1

\* C12: a non-blocking oscillate_timeout call returns a thread handle
C12_TimeoutReturnsHandle ==
    [][(/\ pc[Main] = "t_ret"
        /\ ~arg[Main].block.b
        /\ pc'[Main] = "idle")
       => ret' = "Thread"]_vars

C14_WatcherEndsAfterStop ==
    [][(Active(Watcher) /\ ~Active(Watcher)') => pc[Watcher] = "w_ret"]_vars

\* C15: a stop_oscillation() call moves no thread, reads and commands
\* nothing and leaves the relay and the counter as they are; and the
\* unbounded loop that finds the stop flag set ends there, the relay staying
\* as the last toggle left it
C15_StopFrame ==
    /\ [][StopOscillation =>
            UNCHANGED <<relay, oscillations, pc, fn, arg, tmp, cnt, log>>]_vars
    /\ [][\A t \in Threads :
            (pc[t] = "o_test" /\ pc'[t] # "o_test" /\ stop_flag)
            => (relay' = relay /\ ~Active(t)')]_vars

\* an unbounded loop that has toggled, with the stop flag set by a
\* stop_oscillation() call, about to find it
C15_Witness ==
    \E t \in Threads :
        /\ fn[t] = "oscillate"
        /\ pc[t] = "o_test"
        /\ toggled[t]
        /\ stopped[t]
        /\ stop_flag

\* C16: the step by which a non-blocking oscillate_cycles call starts its
\* thread returns the thread to the caller, who stays where it was, and
\* reads, commands and writes nothing; the thread gets the call's relay_id,
\* period, cycles, start_state and final_state, with block left True, and
\* goes on at the first statement of the blocking branch
C16_CyclesInBackground ==
    /\ [][\A w \in Workers :
            (pc[w] # "start" /\ pc'[w] = "start"
               /\ fn'[w] = "oscillate_cycles") =>
                /\ pc[Main] = "idle" /\ pc'[Main] = "idle"
                /\ ret' = "Thread"
                /\ UNCHANGED <<relay, stop_flag, oscillations, log>>
                /\ arg'[w] = [given EXCEPT !.timeout = NoArgs.timeout,
                                           !.block = PyBool(TRUE)]]_vars
    /\ [][\A w \in Workers :
            (pc[w] = "start" /\ fn[w] = "oscillate_cycles"
               /\ pc'[w] # "start") =>
                (pc'[w] = "c_reset" /\ arg'[w] = arg[w])]_vars

\* a background cycles call with start_state False, run to its end while the
\* caller holds the thread
C16_Witness ==
    \E w \in Workers :
        /\ fn[w] = "oscillate_cycles"
        /\ pc[w] = "c_ret"
        /\ ~intf[w]
        /\ ~arg[w].start_state.b
        /\ pc[Main] = "idle"
        /\ ret = "Thread"

\* C17: every step the watcher thread takes leaves the counter unchanged,
\* and a step that changes the counter is a counter reset or an increment
\* of oscillate or oscillate_cycles, taken by the caller or a loop thread
C17_WatcherLeavesCounter ==
    /\ [][(pc[Watcher] \notin {"idle", "done"}
             /\ pc'[Watcher] # pc[Watcher]) =>
                oscillations' = oscillations]_vars
    /\ [][oscillations' # oscillations =>
            \E t \in {Main} \cup Workers :
                /\ pc[t] \in {"o_zero", "o_wr", "c_zero", "c_wr"}
                /\ pc'[t] # pc[t]]_vars

\* the watcher has run while the loop it was started for has counted
C17_Witness ==
    /\ pc[Watcher] = "done"
    /\ exc[Watcher] = "TypeError"
    /\ oscillations > 0
    /\ \E w \in Workers : fn[w] = "oscillate" /\ InLoop(w)

\* C18: when a non-blocking oscillate or oscillate_cycles call has returned
\* its thread, stop_oscillation() has been called since and no other call
\* has been made, the stop flag is set for as long as that thread lives (so
\* that the loop's next test of the flag ends it)
C18_StopNotLost ==
    \A w \in Workers :
        (/\ calls = 2
         /\ pc[Main] = "idle"
         /\ ret = "Thread"
         /\ fn[w] \in {"oscillate", "oscillate_cycles"}
         /\ Active(w)
         /\ stopped[w]) => stop_flag

\* the iterations of the cycles loop that a thread's log shows as completed:
\* the writes of the counter after the one that reset it
Iterations(l) == Len(SelectSeq(l, LAMBDA e : e = "count")) - 1

CyclesLoop(t) ==
    /\ fn[t] = "oscillate_cycles"
    /\ pc[t] \in {"c_test", "c_test2", "c_get", "c_pow", "c_rd", "c_wr"}

\* C19: while no other thread writes the controller's state during an
\* oscillate_cycles call, its loop completes at most 2 * cycles iterations,
\* the counter (in half cycles) is the number of iterations completed, each
\* step of the loop leaves the counter as it is except the increment, which
\* adds one half cycle; and a blocking call that has passed its asserts
\* returns
C19_CyclesTerminates ==
    /\ [](\A t \in Threads :
            (fn[t] = "oscillate_cycles" /\ ~intf[t]
               /\ pc[t] \in {"c_test", "c_test2", "c_get", "c_pow", "c_rd",
                             "c_wr", "c_fget", "c_fpow", "c_ret"}) =>
                /\ Iterations(log[t]) <= 2 * arg[t].cycles.n
                /\ Len(SelectSeq(log[t], LAMBDA e : e \in {"ON", "OFF"}))
                     <= 2 * arg[t].cycles.n + 2
                /\ oscillations = Iterations(log[t]))
    /\ [][\A t \in Threads :
            (CyclesLoop(t) /\ ~intf'[t]) =>
                oscillations' =
                    IF pc[t] = "c_wr" /\ pc'[t] # pc[t]
                    THEN oscillations + 1 ELSE oscillations]_vars
    /\ (fn[Main] = "oscillate_cycles" /\ pc[Main] = "c_reset")
           ~> (pc[Main] = "idle")

\* a blocking call that has completed all 2 * cycles iterations undisturbed
\* and has left its loop
C19_Witness ==
    /\ fn[Main] = "oscillate_cycles"
    /\ pc[Main] = "c_fget"
    /\ ~intf[Main]
    /\ ~stopped[Main]
    /\ Iterations(log[Main]) = 2 * arg[Main].cycles.n

\* the last n events of a log
LastEvents(l, n) == SubSeq(l, Len(l) - n + 1, Len(l))

\* C20: at the test of either toggle loop, while no other thread has written
\* the controller's state during the call, the counter is one half cycle
\* per completed iteration, and a completed iteration ends with the toggle's
\* command, the sleep of one period and the increment, in that order
C20_HalfCyclePerToggle ==
    \A t \in Threads :
        (pc[t] \in {"o_test", "c_test"} /\ ~intf[t]) =>
            /\ oscillations = Iterations(log[t])
            /\ Iterations(log[t]) >= 1 =>
                 /\ LastEvents(log[t], 3)[1] \in {"ON", "OFF"}
                 /\ LastEvents(log[t], 3)[2] = "sleep"
                 /\ LastEvents(log[t], 3)[3] = "count"

====
